---- MODULE Spec2Model ----
(***************************************************************************)
(* ExtHostChatSessions (src/vs/workbench/api/common/extHostChatSessions.ts) *)
(* as a state machine: the two provider registries and their handle         *)
(* counters, the session-item map, the per-session disposables and          *)
(* cancellation sources, the calls suspended at an await, and the messages  *)
(* sent to the main thread through the RPC proxy.                           *)
(***************************************************************************)
EXTENDS Integers, Sequences, FiniteSets, TLC

\* ------------------------------------------------------------------ bounds
MaxItemRegs == 2        \* calls to registerChatSessionItemProvider
MaxContentRegs == 2     \* calls to registerChatSessionContentProvider
MaxItemDisposeCalls == 2     \* calls to dispose() on one item registration's disposable
MaxContentDisposeCalls == 1  \* calls to dispose() on one content registration's disposable
MaxFires == 2           \* change events fired by provider objects
MaxPending == 1         \* calls suspended at an await, per kind
MaxItems == 2           \* length of a provider's item list
MaxSessions == 2        \* sessions created by $provideChatSessionContent

\* ------------------------------------------------- the extension's objects
\* Item provider objects; "ip1" defines onDidChangeChatSessionItems, "ip2"
\* leaves the optional event out.
ItemProviderObjs == {"ip1", "ip2"}
HasChangeEvent(p) == p = "ip1"
ContentProviderObjs == {"cp1", "cp2"}
ChatSessionTypes == {"t1", "t2"}
\* Session ids the main thread asks for.
SessionIds == {"a", "b"}
\* Ids an item can carry; "" stands for both the empty and the missing id
\* (both are falsy).
ItemIds == {"", "a", "b"}
Labels == {"L1", "L2"}
IconPaths == {"icon"}
ChatSessionItems == [id : ItemIds, label : Labels, iconPath : IconPaths]

RECURSIVE SeqsUpTo(_, _)
SeqsUpTo(S, n) ==
    IF n = 0 THEN {<<>>}
    ELSE LET shorter == SeqsUpTo(S, n - 1)
         IN shorter \cup {Append(s, x) : s \in {t \in shorter : Len(t) = n - 1}, x \in S}

\* What provider.provideChatSessionItems resolves to: null/undefined, or a
\* list of items.
ItemResults ==
    {[nullish |-> TRUE, items |-> <<>>]}
        \cup {[nullish |-> FALSE, items |-> s] : s \in SeqsUpTo(ChatSessionItems, MaxItems)}

VARIABLES
    chatSessionItemProviders,       \* _chatSessionItemProviders: handle -> entry
    chatSessionContentProviders,    \* _chatSessionContentProviders: handle -> entry
    nextChatSessionItemProviderHandle,
    nextChatSessionContentProviderHandle,
    sessionMap,                     \* _sessionMap: id -> item
    sessionHandlePool,              \* static _sessionHandlePool
    extHostChatSessions,            \* _extHostChatSessions: key -> session number
    sessionObjs,                    \* every ExtHostChatSession created, by number
    listeners,                      \* subscriptions on the providers' change events
    pendingItems,                   \* $provideChatSessionItems calls at their await
    pendingContent,                 \* $provideChatSessionContent calls at their await
    mainThread,                     \* messages sent through _proxy: for each registration
                                    \* or session, the messages about it, in sending order
    disposeCalls,                   \* dispose() calls per returned disposable
    fires,                          \* change events fired so far
    pendingRequests,                \* $invokeChatSessionRequestHandler calls at an await
    lastCall,                       \* history: per session key a provider was asked for, which of
                                    \* $provideChatSessionContent and $disposeChatSessionContent
                                    \* was called last
    registered,                     \* history: per registry, every registration in call order
    ev                              \* history: the handler that ran last, and its outcome

vars == <<chatSessionItemProviders, chatSessionContentProviders,
          nextChatSessionItemProviderHandle, nextChatSessionContentProviderHandle,
          sessionMap, sessionHandlePool, extHostChatSessions, sessionObjs,
          listeners, pendingItems, pendingContent, mainThread, disposeCalls,
          pendingRequests, lastCall, fires, registered, ev>>

itemVars == <<chatSessionItemProviders, nextChatSessionItemProviderHandle,
              sessionMap, listeners, pendingItems>>
contentVars == <<chatSessionContentProviders, nextChatSessionContentProviderHandle,
                 sessionHandlePool, extHostChatSessions, sessionObjs, pendingContent>>
requestVars == <<pendingRequests, lastCall>>

\* --------------------------------------------------------------- helpers
\* Map.set
MapSet(m, k, v) == [x \in DOMAIN m \cup {k} |-> IF x = k THEN v ELSE m[x]]
\* Map.delete
MapDelete(m, k) == [x \in DOMAIN m \ {k} |-> m[x]]
EmptyMap == [x \in {} |-> x]

\* this._proxy.$...(...): one more message about `subject`
Send(log, subject, msg) ==
    [x \in DOMAIN log \cup {subject} |->
        IF x = subject
        THEN (IF subject \in DOMAIN log THEN log[subject] ELSE <<>>) \o <<msg>>
        ELSE log[x]]

RemoveAt(s, i) == [j \in 1..(Len(s) - 1) |-> IF j < i THEN s[j] ELSE s[j + 1]]

\* `x++`: the value the counter holds afterwards (and, for comparison, a
\* counter that is read but never advanced).
PostIncrementStuck(n) == n
PostIncrement(n) == n + 1

Init ==
    /\ chatSessionItemProviders = EmptyMap
    /\ chatSessionContentProviders = EmptyMap
    /\ nextChatSessionItemProviderHandle = 0
    /\ nextChatSessionContentProviderHandle = 0
    /\ sessionMap = EmptyMap
    /\ sessionHandlePool = 0
    /\ extHostChatSessions = EmptyMap
    /\ sessionObjs = EmptyMap
    /\ listeners = {}
    /\ pendingItems = <<>>
    /\ pendingRequests = <<>>
    /\ lastCall = EmptyMap
    /\ pendingContent = <<>>
    /\ mainThread = EmptyMap
    /\ disposeCalls = [k \in {} |-> 0]
    /\ fires = 0
    /\ registered = [item |-> <<>>, content |-> <<>>]
    /\ ev = [op |-> "constructor"]

\* ------------------------------------------------ item provider registry
\* registerChatSessionItemProvider(extension, chatSessionType, provider)
registerChatSessionItemProvider(p, T) ==
    /\ nextChatSessionItemProviderHandle < MaxItemRegs
    /\ LET handle == nextChatSessionItemProviderHandle IN
        /\ nextChatSessionItemProviderHandle' = PostIncrement(nextChatSessionItemProviderHandle)
        /\ chatSessionItemProviders' = MapSet(chatSessionItemProviders, handle, [provider |-> p])
        /\ mainThread' = Send(mainThread, <<"item", handle>>,
                [m |-> "$registerChatSessionItemProvider", handle |-> handle, type |-> T])
        /\ listeners' = IF HasChangeEvent(p)
                        THEN listeners \cup {[provider |-> p, handle |-> handle, type |-> T]}
                        ELSE listeners
        /\ disposeCalls' = MapSet(disposeCalls, <<"item", handle>>, 0)
        /\ registered' = [registered EXCEPT !.item =
                Append(@, [handle |-> handle, provider |-> p, type |-> T])]
        /\ ev' = [op |-> "registerChatSessionItemProvider", handle |-> handle, invoked |-> {}]
    /\ UNCHANGED <<sessionMap, pendingItems, fires, contentVars, requestVars>>

\* disposables.dispose() of a registration: the listener it added to the
\* provider's event is removed (KeepListeners: a dispose that leaves it
\* subscribed).
KeepListeners(ls, handle) == ls
ReleaseListeners(ls, handle) == {l \in ls : l.handle # handle}

\* dispose() of the object registerChatSessionItemProvider returned for `handle`
disposeItemProvider(handle) ==
    /\ <<"item", handle>> \in DOMAIN disposeCalls
    /\ disposeCalls[<<"item", handle>>] < MaxItemDisposeCalls
    /\ disposeCalls' = [disposeCalls EXCEPT ![<<"item", handle>>] = @ + 1]
    /\ chatSessionItemProviders' = MapDelete(chatSessionItemProviders, handle)
    /\ listeners' = ReleaseListeners(listeners, handle)
    /\ mainThread' = Send(mainThread, <<"item", handle>>,
            [m |-> "$unregisterChatSessionItemProvider", handle |-> handle])
    /\ ev' = [op |-> "disposeItemProvider", handle |-> handle, invoked |-> {}]
    /\ UNCHANGED <<nextChatSessionItemProviderHandle, sessionMap, pendingItems,
                   fires, registered, contentVars, requestVars>>

\* The listeners of provider object p run in subscription order; each sends
\* $onDidChangeChatSessionItems(chatSessionType).
RECURSIVE Notify(_, _, _, _)
Notify(log, ls, p, h) ==
    IF h < 0 THEN log
    ELSE LET before == Notify(log, ls, p, h - 1) IN
         IF \E l \in ls : l.provider = p /\ l.handle = h
         THEN LET l == CHOOSE x \in ls : x.provider = p /\ x.handle = h
              IN Send(before, <<"item", h>>,
                      [m |-> "$onDidChangeChatSessionItems", type |-> l.type])
         ELSE before

\* The extension fires provider p's onDidChangeChatSessionItems event.
fireOnDidChangeChatSessionItems(p) ==
    /\ HasChangeEvent(p)
    /\ fires < MaxFires
    /\ fires' = fires + 1
    /\ mainThread' = Notify(mainThread, listeners, p, nextChatSessionItemProviderHandle - 1)
    /\ ev' = [op |-> "fireOnDidChangeChatSessionItems", provider |-> p, invoked |-> {}]
    /\ UNCHANGED <<itemVars, disposeCalls, registered, contentVars, requestVars>>

\* ------------------------------------------------ $provideChatSessionItems
\* JavaScript truthiness of a string
Truthy(str) == str # ""

\* The DTO pushed onto the response for one item.
ToDto(item) == [id |-> item.id, label |-> item.label, iconPath |-> item.iconPath]

\* The loop over the provider's items: the response list (ResponseUnfiltered:
\* the loop without its `if (sessionContent.id)`) ...
RECURSIVE ResponseUnfiltered(_)
ResponseUnfiltered(items) ==
    IF items = <<>> THEN <<>>
    ELSE <<ToDto(Head(items))>> \o ResponseUnfiltered(Tail(items))
RECURSIVE Response(_)
Response(items) ==
    IF items = <<>> THEN <<>>
    ELSE (IF Truthy(Head(items).id) THEN <<ToDto(Head(items))>> ELSE <<>>)
         \o Response(Tail(items))

\* ... and the _sessionMap it leaves behind.
RECURSIVE StoreItems(_, _)
StoreItems(map, items) ==
    IF items = <<>> THEN map
    ELSE StoreItems(IF Truthy(Head(items).id)
                    THEN MapSet(map, Head(items).id, Head(items))
                    ELSE map,
                    Tail(items))

\* this._chatSessionItemProviders.get(handle) / _chatSessionContentProviders.get(handle)
\* (GetEntryFirst: a lookup that ignores the handle.)
HasEntry(registry, handle) == handle \in DOMAIN registry
GetEntryFirst(registry, handle) == registry[CHOOSE h \in DOMAIN registry : TRUE]
GetEntry(registry, handle) == registry[handle]

\* How $provideChatSessionItems ends when no entry is found: it logs an
\* error and returns [] (ItemsNoProviderThrows: it throws, as the content
\* call does).
ItemsNoProviderThrows(handle) ==
    [outcome |-> "throw", error |-> "No provider for handle " \o ToString(handle)]
ItemsNoProvider(handle) == [outcome |-> "return", value |-> <<>>]

\* $provideChatSessionItems(handle, token), up to its await (or its early return)
provideChatSessionItems(handle) ==
    /\ IF ~HasEntry(chatSessionItemProviders, handle)
       THEN /\ ev' = [op |-> "$provideChatSessionItems", handle |-> handle,
                      invoked |-> {}] @@ ItemsNoProvider(handle)
            /\ UNCHANGED pendingItems
       ELSE LET entry == GetEntry(chatSessionItemProviders, handle) IN
            /\ Len(pendingItems) < MaxPending
            /\ pendingItems' = Append(pendingItems,
                    [handle |-> handle, provider |-> entry.provider])
            /\ ev' = [op |-> "$provideChatSessionItems", handle |-> handle,
                      invoked |-> {entry.provider}, outcome |-> "await"]
    /\ UNCHANGED <<chatSessionItemProviders, nextChatSessionItemProviderHandle,
                   sessionMap, listeners, mainThread, disposeCalls, fires,
                   registered, contentVars, requestVars>>

\* the provider's promise resolves with `sessions`: the rest of the handler
provideChatSessionItemsResolved(i, sessions) ==
    /\ i \in 1..Len(pendingItems)
    /\ pendingItems' = RemoveAt(pendingItems, i)
    /\ IF sessions.nullish
       THEN /\ sessionMap' = sessionMap
            /\ ev' = [op |-> "$provideChatSessionItems.resume", handle |-> pendingItems[i].handle,
                      invoked |-> {}, outcome |-> "return", value |-> <<>>,
                      sessions |-> sessions]
       ELSE /\ sessionMap' = StoreItems(sessionMap, sessions.items)
            /\ ev' = [op |-> "$provideChatSessionItems.resume", handle |-> pendingItems[i].handle,
                      invoked |-> {}, outcome |-> "return", value |-> Response(sessions.items),
                      sessions |-> sessions]
    /\ UNCHANGED <<chatSessionItemProviders, nextChatSessionItemProviderHandle,
                   listeners, mainThread, disposeCalls, fires, registered, contentVars, requestVars>>

\* the provider's promise rejects: the await throws and the handler rejects
provideChatSessionItemsRejected(i) ==
    /\ i \in 1..Len(pendingItems)
    /\ pendingItems' = RemoveAt(pendingItems, i)
    /\ ev' = [op |-> "$provideChatSessionItems.resume", handle |-> pendingItems[i].handle,
              invoked |-> {}, outcome |-> "throw"]
    /\ UNCHANGED <<chatSessionItemProviders, nextChatSessionItemProviderHandle,
                   sessionMap, listeners, mainThread, disposeCalls, fires,
                   registered, contentVars, requestVars>>

\* ------------------------------------------ the command argument processor
\* Arguments a command can be called with: undefined, or an object with a
\* $mid tag (MarshalledId.ChatSessionContext or another) and an id.
Undefined == [mid |-> "undefined", id |-> ""]
Arguments == {Undefined} \cup [mid : {"ChatSessionContext", "Uri"}, id : ItemIds]

\* processArgument of the processor the constructor registers (and, for
\* comparison, a processor that does not look at the $mid tag)
ProcessArgumentUntagged(arg, map) ==
    IF arg # Undefined /\ arg.id \in DOMAIN map THEN map[arg.id] ELSE arg
ProcessArgument(arg, map) ==
    IF arg # Undefined /\ arg.mid = "ChatSessionContext"
    THEN IF arg.id \in DOMAIN map THEN map[arg.id] ELSE arg
    ELSE arg

\* a command runs with `arg` among its arguments
processArgument(arg) ==
    /\ ev' = [op |-> "processArgument", arg |-> arg, invoked |-> {},
              result |-> ProcessArgument(arg, sessionMap)]
    /\ UNCHANGED <<fires, registered, mainThread, disposeCalls, itemVars, contentVars,
                   requestVars>>

ItemHandles == 0..MaxItemRegs

NextItems ==
    \/ \E p \in ItemProviderObjs, T \in ChatSessionTypes : registerChatSessionItemProvider(p, T)
    \/ \E h \in ItemHandles : disposeItemProvider(h)
    \/ \E p \in ItemProviderObjs : fireOnDidChangeChatSessionItems(p)
    \/ \E h \in ItemHandles : provideChatSessionItems(h)
    \/ \E i \in 1..MaxPending + 1, r \in ItemResults : provideChatSessionItemsResolved(i, r)
    \/ \E i \in 1..MaxPending + 1 : provideChatSessionItemsRejected(i)
    \/ \E arg \in Arguments : processArgument(arg)

SpecItems == Init /\ [][NextItems]_vars

\* --------------------------------------------- content provider registry
\* registerChatSessionContentProvider(extension, chatSessionType, provider)
registerChatSessionContentProvider(p, T) ==
    /\ nextChatSessionContentProviderHandle < MaxContentRegs
    /\ LET handle == nextChatSessionContentProviderHandle IN
        /\ nextChatSessionContentProviderHandle' = PostIncrement(nextChatSessionContentProviderHandle)
        /\ chatSessionContentProviders' = MapSet(chatSessionContentProviders, handle, [provider |-> p])
        /\ mainThread' = Send(mainThread, <<"content", handle>>,
                [m |-> "$registerChatSessionContentProvider", handle |-> handle, type |-> T])
        /\ disposeCalls' = MapSet(disposeCalls, <<"content", handle>>, 0)
        /\ registered' = [registered EXCEPT !.content =
                Append(@, [handle |-> handle, provider |-> p, type |-> T])]
        /\ ev' = [op |-> "registerChatSessionContentProvider", handle |-> handle, invoked |-> {}]
    /\ UNCHANGED <<sessionHandlePool, extHostChatSessions, sessionObjs, pendingContent,
                   fires, itemVars, requestVars>>

\* dispose() of the object registerChatSessionContentProvider returned for `handle`
disposeContentProvider(handle) ==
    /\ <<"content", handle>> \in DOMAIN disposeCalls
    /\ disposeCalls[<<"content", handle>>] < MaxContentDisposeCalls
    /\ disposeCalls' = [disposeCalls EXCEPT ![<<"content", handle>>] = @ + 1]
    /\ chatSessionContentProviders' = MapDelete(chatSessionContentProviders, handle)
    /\ mainThread' = Send(mainThread, <<"content", handle>>,
            [m |-> "$unregisterChatSessionContentProvider", handle |-> handle])
    /\ ev' = [op |-> "disposeContentProvider", handle |-> handle, invoked |-> {}]
    /\ UNCHANGED <<nextChatSessionContentProviderHandle, sessionHandlePool,
                   extHostChatSessions, sessionObjs, pendingContent, fires,
                   registered, itemVars, requestVars>>

\* ---------------------------------------------- $provideChatSessionContent
\* `${handle}_${id}`
Key(handle, id) == ToString(handle) \o "_" \o id

\* What provider.provideChatSessionContent resolves to: a vscode.ChatSession.
\* activeResponseCallback is absent, returns a thenable, or throws when called;
\* history either converts or makes the conversion throw.
ChatSessions ==
    [activeResponseCallback : {"absent", "returns", "throws"},
     requestHandler : BOOLEAN,
     historyConverts : BOOLEAN]

\* How $provideChatSessionContent ends when no entry is found:
\* throw new Error(`No provider for handle ${handle}`)
\* (ContentNoProviderReturns: it returns empty-handed, as the item call does).
ContentNoProviderReturns(handle) == [outcome |-> "return", value |-> <<>>]
ContentNoProvider(handle) ==
    [outcome |-> "throw", error |-> "No provider for handle " \o ToString(handle)]

\* $provideChatSessionContent(handle, id, token), up to its await (or its throw)
provideChatSessionContent(handle, id) ==
    /\ IF ~HasEntry(chatSessionContentProviders, handle)
       THEN /\ ev' = [op |-> "$provideChatSessionContent", handle |-> handle, id |-> id,
                      invoked |-> {}] @@ ContentNoProvider(handle)
            /\ UNCHANGED <<pendingContent, lastCall>>
       ELSE LET provider == GetEntry(chatSessionContentProviders, handle) IN
            /\ Len(pendingContent) < MaxPending
            /\ pendingContent' = Append(pendingContent,
                    [handle |-> handle, id |-> id, provider |-> provider.provider,
                     tokenCancelled |-> FALSE])
            /\ ev' = [op |-> "$provideChatSessionContent", handle |-> handle, id |-> id,
                      invoked |-> {provider.provider}, outcome |-> "await"]
            /\ lastCall' = MapSet(lastCall, Key(handle, id), "$provideChatSessionContent")
    /\ UNCHANGED <<chatSessionContentProviders, nextChatSessionContentProviderHandle,
                   sessionHandlePool, extHostChatSessions, sessionObjs, mainThread,
                   disposeCalls, fires, registered, itemVars, pendingRequests>>

\* The main thread cancels the token it passed to a suspended call.
cancelRequestToken(i) ==
    /\ i \in 1..Len(pendingContent)
    /\ ~pendingContent[i].tokenCancelled
    /\ pendingContent' = [pendingContent EXCEPT ![i].tokenCancelled = TRUE]
    /\ ev' = [op |-> "cancelRequestToken", handle |-> pendingContent[i].handle,
              id |-> pendingContent[i].id, invoked |-> {}]
    /\ UNCHANGED <<chatSessionContentProviders, nextChatSessionContentProviderHandle,
                   sessionHandlePool, extHostChatSessions, sessionObjs, mainThread,
                   disposeCalls, fires, registered, itemVars, requestVars>>

\* The token passed to activeResponseCallback: disposeCts.token (RequestToken:
\* the call's own `token` passed on instead).
RequestToken(disposeCts, call) == [source |-> "request", cancelled |-> call.tokenCancelled]
DisposeCtsToken(disposeCts, call) == [source |-> "disposeCts", cancelled |-> disposeCts]

\* new ExtHostChatSession(...) with its fresh DisposableStore and
\* CancellationTokenSource, and the call of activeResponseCallback
NewSession(call, session) ==
    [handle |-> call.handle, id |-> call.id,
     hasRequestHandler |-> session.requestHandler,
     storeDisposed |-> FALSE,
     cancelled |-> FALSE,
     order |-> <<>>,
     callbackCalls |-> IF session.activeResponseCallback = "absent" THEN 0 ELSE 1,
     callback |-> CASE session.activeResponseCallback = "absent" -> "none"
                    [] session.activeResponseCallback = "returns" -> "pending"
                    [] session.activeResponseCallback = "throws" -> "threw",
     callbackToken |-> IF session.activeResponseCallback = "absent"
                       THEN [source |-> "none", cancelled |-> FALSE]
                       ELSE DisposeCtsToken(FALSE, call)]

\* the ChatSessionDto returned
Dto(sessionId, session) ==
    [id |-> ToString(sessionId),
     hasActiveResponseCallback |-> session.activeResponseCallback # "absent",
     hasRequestHandler |-> session.requestHandler]

\* the provider's promise resolves with `session`: the rest of the handler
provideChatSessionContentResolved(i, session) ==
    /\ i \in 1..Len(pendingContent)
    /\ sessionHandlePool < MaxSessions
    /\ LET call == pendingContent[i]
           sessionId == sessionHandlePool
       IN
        /\ pendingContent' = RemoveAt(pendingContent, i)
        /\ sessionHandlePool' = PostIncrement(sessionHandlePool)
        /\ sessionObjs' = MapSet(sessionObjs, sessionId, NewSession(call, session))
        /\ extHostChatSessions' = MapSet(extHostChatSessions, Key(call.handle, call.id), sessionId)
        /\ ev' = IF session.activeResponseCallback = "throws" \/ ~session.historyConverts
                 THEN [op |-> "$provideChatSessionContent.resume", handle |-> call.handle,
                       id |-> call.id, invoked |-> {}, session |-> sessionId,
                       outcome |-> "throw", error |-> "thrown by the extension"]
                 ELSE [op |-> "$provideChatSessionContent.resume", handle |-> call.handle,
                       id |-> call.id, invoked |-> {}, session |-> sessionId,
                       outcome |-> "return", value |-> Dto(sessionId, session)]
    /\ UNCHANGED <<chatSessionContentProviders, nextChatSessionContentProviderHandle,
                   mainThread, disposeCalls, fires, registered, itemVars, requestVars>>

\* the provider's promise rejects: the await throws and the handler rejects
provideChatSessionContentRejected(i) ==
    /\ i \in 1..Len(pendingContent)
    /\ pendingContent' = RemoveAt(pendingContent, i)
    /\ ev' = [op |-> "$provideChatSessionContent.resume", handle |-> pendingContent[i].handle,
              id |-> pendingContent[i].id, invoked |-> {}, outcome |-> "throw",
              error |-> "rejected by the provider"]
    /\ UNCHANGED <<chatSessionContentProviders, nextChatSessionContentProviderHandle,
                   sessionHandlePool, extHostChatSessions, sessionObjs, mainThread,
                   disposeCalls, fires, registered, itemVars, requestVars>>

\* Promise.resolve(callback(...)).finally(() => $handleProgressComplete(...))
\* (ThenOnly: .then in place of .finally).
ThenOnly(log, n, how, msg) == IF how = "fulfilled" THEN Send(log, <<"session", n>>, msg) ELSE log
Finally(log, n, how, msg) == Send(log, <<"session", n>>, msg)

\* The promise activeResponseCallback returned for session n settles.
activeResponseCallbackSettled(n, how) ==
    /\ n \in DOMAIN sessionObjs
    /\ sessionObjs[n].callback = "pending"
    /\ sessionObjs' = [sessionObjs EXCEPT ![n].callback = how]
    /\ mainThread' = Finally(mainThread, n, how,
            [m |-> "$handleProgressComplete", handle |-> sessionObjs[n].handle,
             id |-> sessionObjs[n].id, requestId |-> "ongoing"])
    /\ ev' = [op |-> "activeResponseCallbackSettled", session |-> n, invoked |-> {}]
    /\ UNCHANGED <<chatSessionContentProviders, nextChatSessionContentProviderHandle,
                   sessionHandlePool, extHostChatSessions, pendingContent,
                   disposeCalls, fires, registered, itemVars, requestVars>>

\* ---------------------------------------------- $disposeChatSessionContent
\* entry.disposeCts.cancel()
Cancel(s) == [s EXCEPT !.cancelled = TRUE, !.order = Append(@, "cancel")]
\* entry.sessionObj.sessionDisposables.dispose(): the store, and the
\* CancellationTokenSource added to it, are disposed; disposing the source
\* does not cancel it.
Dispose(s) == [s EXCEPT !.storeDisposed = TRUE, !.order = Append(@, "dispose")]
\* this._extHostChatSessions.delete(key)
Delete(s) == [s EXCEPT !.order = Append(@, "delete")]

\* the three statements of the handler, in program order (DisposeThenCancel:
\* the first two swapped)
DisposeThenCancel(s) == Delete(Cancel(Dispose(s)))
CancelDisposeDelete(s) == Delete(Dispose(Cancel(s)))

\* $disposeChatSessionContent(providerHandle, sessionId)
disposeChatSessionContent(providerHandle, sessionId) ==
    LET key == Key(providerHandle, sessionId) IN
    /\ ev' = [op |-> "$disposeChatSessionContent", handle |-> providerHandle,
              id |-> sessionId, invoked |-> {},
              found |-> key \in DOMAIN extHostChatSessions]
    /\ IF key \notin DOMAIN extHostChatSessions
       THEN UNCHANGED <<sessionObjs, extHostChatSessions>>
       ELSE /\ sessionObjs' = [sessionObjs EXCEPT
                    ![extHostChatSessions[key]] = CancelDisposeDelete(@)]
            /\ extHostChatSessions' = MapDelete(extHostChatSessions, key)
    /\ lastCall' = IF key \in DOMAIN lastCall
                   THEN MapSet(lastCall, key, "$disposeChatSessionContent")
                   ELSE lastCall
    /\ UNCHANGED <<chatSessionContentProviders, nextChatSessionContentProviderHandle,
                   sessionHandlePool, pendingContent, mainThread, disposeCalls,
                   fires, registered, itemVars, pendingRequests>>

\* ------------------------------------------ $invokeChatSessionRequestHandler
\* `{}`, the IChatAgentResult every completed call returns
EmptyResult == EmptyMap

\* What the awaited getModelForRequest comes to: a model (the selected one or
\* the default), or neither, which throws.
LanguageModels == {"model", "none"}

\* `!entry || !entry.sessionObj.session.requestHandler`, negated (and, for
\* comparison, a test of the entry alone).
HasHandlerAnyEntry(sessions, objs, key) == key \in DOMAIN sessions
HasHandler(sessions, objs, key) ==
    /\ key \in DOMAIN sessions
    /\ objs[sessions[key]].hasRequestHandler

\* $invokeChatSessionRequestHandler(handle, id, request, history, token), up
\* to `await this.getModelForRequest(...)`
invokeChatSessionRequestHandler(handle, id) ==
    LET key == Key(handle, id) IN
    /\ IF ~HasHandler(extHostChatSessions, sessionObjs, key)
       THEN /\ ev' = [op |-> "$invokeChatSessionRequestHandler", handle |-> handle,
                      id |-> id, invoked |-> {}, outcome |-> "return",
                      value |-> EmptyResult, modelLookups |-> 0, handlerCalls |-> 0]
            /\ UNCHANGED pendingRequests
       ELSE /\ Len(pendingRequests) < MaxPending
            /\ pendingRequests' = Append(pendingRequests,
                    [handle |-> handle, id |-> id, session |-> extHostChatSessions[key],
                     at |-> "getModelForRequest", handlerCalls |-> 0,
                     token |-> [source |-> "none"]])
            /\ ev' = [op |-> "$invokeChatSessionRequestHandler", handle |-> handle,
                      id |-> id, invoked |-> {}, outcome |-> "await",
                      modelLookups |-> 1, handlerCalls |-> 0]
    /\ UNCHANGED <<fires, registered, mainThread, disposeCalls, lastCall, itemVars, contentVars>>

\* getModelForRequest settles and the call goes on: it throws 'Language model
\* unavailable', or calls entry.sessionObj.session.requestHandler(chatRequest,
\* { history }, stream.apiObject, token) and awaits it.
languageModelResolved(i, model) ==
    /\ i \in 1..Len(pendingRequests)
    /\ pendingRequests[i].at = "getModelForRequest"
    /\ LET call == pendingRequests[i] IN
        IF model = "none"
        THEN /\ pendingRequests' = RemoveAt(pendingRequests, i)
             /\ ev' = [op |-> "$invokeChatSessionRequestHandler.model", handle |-> call.handle,
                       id |-> call.id, session |-> call.session, invoked |-> {},
                       outcome |-> "throw", error |-> "Language model unavailable",
                       handlerCalls |-> 0, token |-> call.token]
        ELSE /\ pendingRequests' = [pendingRequests EXCEPT ![i] =
                    [@ EXCEPT !.at = "requestHandler",
                              !.handlerCalls = @ + 1,
                              !.token = [source |-> "request"]]]
             /\ ev' = [op |-> "$invokeChatSessionRequestHandler.model", handle |-> call.handle,
                       id |-> call.id, session |-> call.session,
                       invoked |-> {<<"requestHandler", call.session>>},
                       outcome |-> "await", handlerCalls |-> call.handlerCalls + 1,
                       token |-> [source |-> "request"]]
    /\ UNCHANGED <<fires, registered, mainThread, disposeCalls, lastCall, itemVars, contentVars>>

\* the promise of requestHandler settles: `return {}`, or the call rejects
\* with the handler's error
requestHandlerSettled(i, how) ==
    /\ i \in 1..Len(pendingRequests)
    /\ pendingRequests[i].at = "requestHandler"
    /\ LET call == pendingRequests[i] IN
        /\ pendingRequests' = RemoveAt(pendingRequests, i)
        /\ ev' = IF how = "fulfilled"
                 THEN [op |-> "$invokeChatSessionRequestHandler.handler", handle |-> call.handle,
                       id |-> call.id, session |-> call.session, invoked |-> {},
                       outcome |-> "return", value |-> EmptyResult,
                       handlerCalls |-> call.handlerCalls, token |-> call.token]
                 ELSE [op |-> "$invokeChatSessionRequestHandler.handler", handle |-> call.handle,
                       id |-> call.id, session |-> call.session, invoked |-> {},
                       outcome |-> "throw", error |-> "rejected by the handler",
                       handlerCalls |-> call.handlerCalls, token |-> call.token]
    /\ UNCHANGED <<fires, registered, mainThread, disposeCalls, lastCall, itemVars, contentVars>>

ContentHandles == 0..MaxContentRegs
SessionNumbers == 0..MaxSessions

NextContent ==
    \/ \E p \in ContentProviderObjs, T \in ChatSessionTypes :
            registerChatSessionContentProvider(p, T)
    \/ \E h \in ContentHandles : disposeContentProvider(h)
    \/ \E h \in ContentHandles, id \in SessionIds : provideChatSessionContent(h, id)
    \/ \E i \in 1..MaxPending + 1 : cancelRequestToken(i)
    \/ \E i \in 1..MaxPending + 1, s \in ChatSessions : provideChatSessionContentResolved(i, s)
    \/ \E i \in 1..MaxPending + 1 : provideChatSessionContentRejected(i)
    \/ \E n \in SessionNumbers, how \in {"fulfilled", "rejected"} :
            activeResponseCallbackSettled(n, how)
    \/ \E h \in ContentHandles, id \in SessionIds : disposeChatSessionContent(h, id)
    \/ \E h \in ContentHandles, id \in SessionIds : invokeChatSessionRequestHandler(h, id)
    \/ \E i \in 1..MaxPending + 1, model \in LanguageModels : languageModelResolved(i, model)
    \/ \E i \in 1..MaxPending + 1, how \in {"fulfilled", "rejected"} :
            requestHandlerSettled(i, how)

SpecContent == Init /\ [][NextContent]_vars

Next == NextItems \/ NextContent

Spec == Init /\ [][Next]_vars

\* Registrations, disposals and the start of the two provide calls, on both
\* registries at once.
NextHandles ==
    \/ \E p \in ItemProviderObjs : registerChatSessionItemProvider(p, "t1")
    \/ \E h \in ItemHandles : disposeItemProvider(h)
    \/ \E h \in ItemHandles : provideChatSessionItems(h)
    \/ \E i \in 1..MaxPending + 1 : provideChatSessionItemsRejected(i)
    \/ \E p \in ContentProviderObjs : registerChatSessionContentProvider(p, "t1")
    \/ \E h \in ContentHandles : disposeContentProvider(h)
    \/ \E h \in ContentHandles : provideChatSessionContent(h, "a")
    \/ \E i \in 1..MaxPending + 1 : provideChatSessionContentRejected(i)

SpecHandles == Init /\ [][NextHandles]_vars

\* An item provider's change events: registrations of either provider object
\* under either session type, disposals, and the events fired.
NextItemEvents ==
    \/ \E p \in ItemProviderObjs, T \in ChatSessionTypes : registerChatSessionItemProvider(p, T)
    \/ \E h \in ItemHandles : disposeItemProvider(h)
    \/ \E p \in ItemProviderObjs : fireOnDidChangeChatSessionItems(p)

SpecItemEvents == Init /\ [][NextItemEvents]_vars

\* The session lists: registrations, disposals and $provideChatSessionItems.
NextItemLists ==
    \/ \E p \in ItemProviderObjs : registerChatSessionItemProvider(p, "t1")
    \/ \E h \in ItemHandles : disposeItemProvider(h)
    \/ \E h \in ItemHandles : provideChatSessionItems(h)
    \/ \E i \in 1..MaxPending + 1, r \in ItemResults : provideChatSessionItemsResolved(i, r)
    \/ \E i \in 1..MaxPending + 1 : provideChatSessionItemsRejected(i)

SpecItemLists == Init /\ [][NextItemLists]_vars

\* The sessions of one content provider object, asked for under one id
\* through either of its registrations (the keys "0_a" and "1_a"): their
\* creation, their callbacks and their disposal.
NextSessions ==
    \/ registerChatSessionContentProvider("cp1", "t1")
    \/ \E h \in ContentHandles : disposeContentProvider(h)
    \/ \E h \in ContentHandles : provideChatSessionContent(h, "a")
    \/ \E i \in 1..MaxPending + 1 : cancelRequestToken(i)
    \/ \E i \in 1..MaxPending + 1, s \in {x \in ChatSessions : x.requestHandler} : provideChatSessionContentResolved(i, s)
    \/ \E i \in 1..MaxPending + 1 : provideChatSessionContentRejected(i)
    \/ \E n \in SessionNumbers, how \in {"fulfilled", "rejected"} :
            activeResponseCallbackSettled(n, how)
    \/ \E h \in ContentHandles, id \in SessionIds : disposeChatSessionContent(h, id)

SpecSessions == Init /\ [][NextSessions]_vars

\* Requests to the sessions of one content provider object: sessions with and
\* without a requestHandler, asked for under one id, disposed, and sent
\* requests under either id.
NextRequests ==
    \/ registerChatSessionContentProvider("cp1", "t1")
    \/ \E h \in ContentHandles : provideChatSessionContent(h, "a")
    \/ \E i \in 1..MaxPending + 1,
          s \in {x \in ChatSessions : x.activeResponseCallback = "absent" /\ x.historyConverts} :
            provideChatSessionContentResolved(i, s)
    \/ \E h \in ContentHandles : disposeChatSessionContent(h, "a")
    \/ \E h \in ContentHandles, id \in SessionIds : invokeChatSessionRequestHandler(h, id)
    \/ \E i \in 1..MaxPending + 1, model \in LanguageModels : languageModelResolved(i, model)
    \/ \E i \in 1..MaxPending + 1, how \in {"fulfilled", "rejected"} :
            requestHandlerSettled(i, how)

SpecRequests == Init /\ [][NextRequests]_vars

\* Commands run on arguments while item lists are provided and item
\* providers come and go.
NextArguments ==
    \/ NextItemLists
    \/ \E arg \in Arguments : processArgument(arg)

SpecArguments == Init /\ [][NextArguments]_vars

\* ================================================================ claims
\* What the histories say, independently of the two Maps: the provider
\* objects ever registered under a handle, and whether a registration has
\* been made and not yet disposed.
RegisteredUnder(kind, h) ==
    {registered[kind][i].provider :
        i \in {j \in 1..Len(registered[kind]) : registered[kind][j].handle = h}}
Live(kind, h) ==
    /\ <<kind, h>> \in DOMAIN disposeCalls
    /\ disposeCalls[<<kind, h>>] = 0

\* C1: in each registry the i-th registration (i = 0, 1, ...) got handle i,
\* whatever was disposed in between, so handles are never shared or reused;
\* the two registries count independently.
C1_HandleIsCallIndex ==
    \A kind \in {"item", "content"} :
        \A i \in 1..Len(registered[kind]) : registered[kind][i].handle = i - 1

\* C1 witness: item handle 0 was disposed and a second item registration
\* made, while a content registration holds the same integer 0.
C1_Witness ==
    /\ Len(registered.item) = 2
    /\ ~Live("item", 0)
    /\ DOMAIN chatSessionItemProviders = {1}
    /\ Len(registered.content) >= 1
    /\ 0 \in DOMAIN chatSessionContentProviders

\* C2: a $provideChatSessionItems / $provideChatSessionContent call for
\* handle h invokes the provider object registered under h in the matching
\* registry and no other; a call for a handle that was never registered, or
\* whose registration has been disposed, invokes no provider.
C2_Kind(op) == IF op = "$provideChatSessionItems" THEN "item" ELSE "content"
C2_Step ==
    ev'.op \in {"$provideChatSessionItems", "$provideChatSessionContent"} =>
        LET kind == C2_Kind(ev'.op) IN
        /\ ev'.invoked \subseteq RegisteredUnder(kind, ev'.handle)
        /\ Live(kind, ev'.handle) => ev'.invoked = RegisteredUnder(kind, ev'.handle)
        /\ ~Live(kind, ev'.handle) => ev'.invoked = {}
C2_OnlyTheRegisteredProvider == [][C2_Step]_vars

\* C2 witness: two different provider objects are registered for content,
\* handle 0 has been disposed, and a call for handle 1 has invoked a provider.
C2_Witness ==
    /\ Len(registered.content) = 2
    /\ registered.content[1].provider # registered.content[2].provider
    /\ ~Live("content", 0)
    /\ ev.op = "$provideChatSessionContent"
    /\ ev.handle = 1
    /\ ev.invoked # {}

\* The session registered under a key, if any.
EntryAt(key) == IF key \in DOMAIN extHostChatSessions THEN {extHostChatSessions[key]} ELSE {}

\* C3: every session store $provideChatSessionContent created and that is
\* not yet disposed is the sessionDisposables of some entry of
\* _extHostChatSessions.
C3_LiveStoresAreRegistered ==
    \A n \in DOMAIN sessionObjs :
        ~sessionObjs[n].storeDisposed =>
            \E key \in DOMAIN extHostChatSessions : extHostChatSessions[key] = n

\* C4: $disposeChatSessionContent cancels the token, then disposes the
\* store, then removes the entry: a disposed store belongs to a session that
\* went through exactly these three statements in this order (so its token
\* is cancelled), a session that did not has neither; the call disposes the
\* session that was registered under the key, and once it has returned no
\* entry exists under that key.
C4_Lifecycle(s) ==
    /\ s.order \in {<<>>, <<"cancel", "dispose", "delete">>}
    /\ s.storeDisposed <=> s.order # <<>>
    /\ s.storeDisposed => s.cancelled
C4_Step ==
    /\ \A n \in DOMAIN sessionObjs' : C4_Lifecycle(sessionObjs'[n])
    /\ ev'.op = "$disposeChatSessionContent" =>
        LET key == Key(ev'.handle, ev'.id) IN
        /\ key \notin DOMAIN extHostChatSessions'
        /\ \A n \in EntryAt(key) :
                sessionObjs'[n].cancelled /\ sessionObjs'[n].storeDisposed
C4_CancelDisposeDelete == [][C4_Step]_vars

\* C4 witness: $disposeChatSessionContent has just disposed a registered
\* session.
C4_Witness ==
    /\ ev.op = "$disposeChatSessionContent"
    /\ ev.found
    /\ \E n \in DOMAIN sessionObjs : sessionObjs[n].storeDisposed

\* C5: the token handed to activeResponseCallback is the dispose token,
\* uncancelled at the call; a session's dispose token goes from uncancelled
\* to cancelled in exactly the steps that are $disposeChatSessionContent for
\* the key under which that session is the registered entry, and is never
\* reset.
C5_Step ==
    \A n \in DOMAIN sessionObjs' :
        IF n \notin DOMAIN sessionObjs
        THEN /\ ~sessionObjs'[n].cancelled
             /\ sessionObjs'[n].callbackCalls = 1 =>
                    sessionObjs'[n].callbackToken = [source |-> "disposeCts", cancelled |-> FALSE]
        ELSE /\ sessionObjs'[n].callbackToken = sessionObjs[n].callbackToken
             /\ sessionObjs[n].cancelled => sessionObjs'[n].cancelled
             /\ (~sessionObjs[n].cancelled /\ sessionObjs'[n].cancelled)
                    <=> (/\ ev'.op = "$disposeChatSessionContent"
                         /\ n \in EntryAt(Key(ev'.handle, ev'.id)))
C5_CancelledOnlyByDispose == [][C5_Step]_vars

\* C5 witness: two sessions with callbacks, under different keys, created by
\* a provider whose registration has since been disposed; one session has
\* been disposed and its token cancelled, the other's token is uncancelled.
C5_Witness ==
    /\ \E n, k \in DOMAIN sessionObjs :
        /\ sessionObjs[n].callbackCalls = 1 /\ sessionObjs[n].cancelled
        /\ sessionObjs[k].callbackCalls = 1 /\ ~sessionObjs[k].cancelled
        /\ sessionObjs[n].handle # sessionObjs[k].handle
        /\ ~Live("content", sessionObjs[k].handle)

\* C7: $provideChatSessionContent for a handle with no live registration
\* throws `No provider for handle <handle>` and changes nothing: no provider
\* invoked, no entry added, the handle pool not advanced, nothing sent.
C7_Step ==
    (ev'.op = "$provideChatSessionContent" /\ ~Live("content", ev'.handle)) =>
        /\ ev'.outcome = "throw"
        /\ ev'.error = "No provider for handle " \o ToString(ev'.handle)
        /\ ev'.invoked = {}
        /\ UNCHANGED <<extHostChatSessions, sessionObjs, sessionHandlePool,
                       mainThread, pendingContent, chatSessionContentProviders>>
C7_UnknownHandleThrows == [][C7_Step]_vars

\* C7 witness: the call failed for a handle whose registration was disposed,
\* while a session and a suspended call exist that it left alone.
C7_Witness ==
    /\ ev.op = "$provideChatSessionContent"
    /\ ev.outcome = "throw"
    /\ <<"content", ev.handle>> \in DOMAIN disposeCalls
    /\ extHostChatSessions # EmptyMap
    /\ pendingContent # <<>>

\* The $handleProgressComplete(handle, id, 'ongoing') messages sent for
\* session n.
ProgressCompletes(n) ==
    IF <<"session", n>> \in DOMAIN mainThread
    THEN SelectSeq(mainThread[<<"session", n>>],
                   LAMBDA msg : msg = [m |-> "$handleProgressComplete",
                                       handle |-> sessionObjs[n].handle,
                                       id |-> sessionObjs[n].id,
                                       requestId |-> "ongoing"])
    ELSE <<>>
AllMessagesFor(n) ==
    IF <<"session", n>> \in DOMAIN mainThread THEN mainThread[<<"session", n>>] ELSE <<>>

\* C10: when $provideChatSessionContent returns its DTO, a defined
\* activeResponseCallback has been called exactly once and the DTO says so;
\* exactly one $handleProgressComplete(handle, id, 'ongoing') has been sent
\* for a session once its callback's result has settled, fulfilled or
\* rejected, and none before; a session without the callback never gets one
\* and its DTO reports hasActiveResponseCallback = false.
C10_ProgressComplete ==
    /\ \A n \in DOMAIN sessionObjs :
        /\ Len(ProgressCompletes(n)) =
                (IF sessionObjs[n].callback \in {"fulfilled", "rejected"} THEN 1 ELSE 0)
        /\ AllMessagesFor(n) = ProgressCompletes(n)
        /\ sessionObjs[n].callbackCalls = 0 =>
                sessionObjs[n].callback = "none" /\ ProgressCompletes(n) = <<>>
    /\ (ev.op = "$provideChatSessionContent.resume" /\ ev.outcome = "return") =>
        /\ ev.value.hasActiveResponseCallback <=> sessionObjs[ev.session].callbackCalls = 1
        /\ sessionObjs[ev.session].callbackCalls = 1 => sessionObjs[ev.session].callback = "pending"

\* C10 witness: one session's callback fulfilled, another's rejected, and
\* each has its one completion message.
C10_Witness ==
    \E n, k \in DOMAIN sessionObjs :
        /\ sessionObjs[n].callback = "fulfilled" /\ Len(ProgressCompletes(n)) = 1
        /\ sessionObjs[k].callback = "rejected" /\ Len(ProgressCompletes(k)) = 1

\* The DTOs of the items that carry a non-empty id, in the items' order.
C6_ExpectedDtos(items) ==
    LET kept == SelectSeq(items, LAMBDA it : it.id # "")
    IN [i \in 1..Len(kept) |->
            [id |-> kept[i].id, label |-> kept[i].label, iconPath |-> kept[i].iconPath]]
C6_Ids(items) == {items[i].id : i \in 1..Len(items)} \ {""}
C6_LastWith(items, id) ==
    items[CHOOSE i \in 1..Len(items) :
            items[i].id = id /\ \A j \in (i + 1)..Len(items) : items[j].id # id]
\* What holds of every completed $provideChatSessionItems whichever item of
\* several with one id is stored: the response, the ids stored, the rest of
\* _sessionMap untouched, and the null/undefined result.
C6_Common ==
    LET items == ev'.sessions.items IN
    IF ev'.sessions.nullish
    THEN ev'.value = <<>> /\ sessionMap' = sessionMap
    ELSE /\ ev'.value = C6_ExpectedDtos(items)
         /\ DOMAIN sessionMap' = DOMAIN sessionMap \cup C6_Ids(items)
         /\ \A id \in DOMAIN sessionMap \ C6_Ids(items) : sessionMap'[id] = sessionMap[id]
C6_IsReturn == ev'.op = "$provideChatSessionItems.resume" /\ ev'.outcome = "return"

\* C6 as stated: the response holds one DTO {id, label, iconPath} per item
\* with a non-empty id, in order, and each such item is then stored in
\* _sessionMap under its id; items without id are neither returned nor
\* stored; a null/undefined result gives [] and leaves _sessionMap alone.
C6_Original_Step ==
    C6_IsReturn =>
        /\ C6_Common
        /\ \A i \in 1..Len(ev'.sessions.items) :
                ev'.sessions.items[i].id # "" =>
                    sessionMap'[ev'.sessions.items[i].id] = ev'.sessions.items[i]
C6_EachReturnedItemStored == [][C6_Original_Step]_vars

\* C6 amended: as stated, except that of several returned items sharing an
\* id it is the last one that _sessionMap holds under that id afterwards.
C6_Amended_Step ==
    C6_IsReturn =>
        /\ C6_Common
        /\ \A id \in C6_Ids(ev'.sessions.items) :
                sessionMap'[id] = C6_LastWith(ev'.sessions.items, id)
C6_LastReturnedItemStored == [][C6_Amended_Step]_vars

\* C6 witness: a completed call whose list held two different items with the
\* same id; both are in the response, the second is in _sessionMap.
C6_Witness ==
    /\ ev.op = "$provideChatSessionItems.resume"
    /\ ev.outcome = "return"
    /\ Len(ev.sessions.items) = 2
    /\ ev.sessions.items[1].id = ev.sessions.items[2].id
    /\ ev.sessions.items[1] # ev.sessions.items[2]
    /\ Len(ev.value) = 2
    /\ sessionMap[ev.sessions.items[2].id] = ev.sessions.items[2]

\* C8: $provideChatSessionItems for a handle with no live registration
\* returns the empty list, invokes no provider and leaves _sessionMap (and
\* everything else) as it was.
C8_Step ==
    (ev'.op = "$provideChatSessionItems" /\ ~Live("item", ev'.handle)) =>
        /\ ev'.outcome = "return"
        /\ ev'.value = <<>>
        /\ ev'.invoked = {}
        /\ UNCHANGED <<sessionMap, pendingItems, chatSessionItemProviders, mainThread>>
C8_UnknownHandleReturnsEmpty == [][C8_Step]_vars

\* C8 witness: the call returned for a handle whose registration was
\* disposed, with items of an earlier call still in _sessionMap.
C8_Witness ==
    /\ ev.op = "$provideChatSessionItems"
    /\ ev.outcome = "return"
    /\ <<"item", ev.handle>> \in DOMAIN disposeCalls
    /\ sessionMap # EmptyMap

\* The messages sent about item registration h, and the change
\* notifications among them.
ItemLog(h) == IF <<"item", h>> \in DOMAIN mainThread THEN mainThread[<<"item", h>>] ELSE <<>>
Changes(log) == SelectSeq(log, LAMBDA msg : msg.m = "$onDidChangeChatSessionItems")
Unregisters(log) == SelectSeq(log, LAMBDA msg : msg.m = "$unregisterChatSessionItemProvider")

\* C9: for an item registration of handle h and type T, the first message is
\* $registerChatSessionItemProvider(h, T); every change notification it
\* causes is $onDidChangeChatSessionItems(T) and comes before any
\* $unregisterChatSessionItemProvider(h); when the unregister message has
\* been sent the entry and the listener are gone; and each event the provider
\* fires adds exactly one notification if the registration is live, none
\* otherwise, and no other step adds one.
C9_Order(r) ==
    LET log == ItemLog(r.handle) IN
    /\ log # <<>>
    /\ log[1] = [m |-> "$registerChatSessionItemProvider", handle |-> r.handle, type |-> r.type]
    /\ \A j \in 1..Len(log) :
        log[j].m = "$onDidChangeChatSessionItems" =>
            /\ log[j].type = r.type
            /\ \A k \in 1..j : log[k].m # "$unregisterChatSessionItemProvider"
    /\ Unregisters(log) # <<>> =>
        /\ r.handle \notin DOMAIN chatSessionItemProviders
        /\ \A l \in listeners : l.handle # r.handle
    /\ Live("item", r.handle) <=> Unregisters(log) = <<>>
C9_Step ==
    /\ \A i \in 1..Len(registered.item') : C9_Order(registered.item[i])'
    /\ \A i \in 1..Len(registered.item) :
        LET r == registered.item[i] IN
        Len(Changes(ItemLog(r.handle)')) =
            Len(Changes(ItemLog(r.handle)))
                + (IF /\ ev'.op = "fireOnDidChangeChatSessionItems"
                      /\ ev'.provider = r.provider
                      /\ Live("item", r.handle)
                   THEN 1 ELSE 0)
C9_ChangeNotifications == [][C9_Step]_vars

\* C9 witness: a registration was notified of one event, then disposed, and
\* its provider has just fired again.
C9_Witness ==
    \E i \in 1..Len(registered.item) :
        LET r == registered.item[i] IN
        /\ Len(ItemLog(r.handle)) = 3
        /\ Len(Changes(ItemLog(r.handle))) = 1
        /\ Len(Unregisters(ItemLog(r.handle))) = 1
        /\ ev.op = "fireOnDidChangeChatSessionItems"
        /\ ev.provider = r.provider
        /\ fires = 2

\* The parts of C11 that its original and its amended statement share. A call
\* that finds no session under its key, or a session without requestHandler,
\* returns {} at once: no model is looked up, no handler is called and nothing
\* is left pending; any other call goes on for the session it found. So a call
\* right after $disposeChatSessionContent for the same key returns {} at once.
\* A requestHandler is only ever called by a call that found its session, once,
\* with the token that call received.
C11_IsStart == ev'.op = "$invokeChatSessionRequestHandler"
C11_IsEnd ==
    /\ ev'.op \in {"$invokeChatSessionRequestHandler.model",
                   "$invokeChatSessionRequestHandler.handler"}
    /\ ev'.outcome # "await"
C11_Common ==
    /\ C11_IsStart =>
        LET key == Key(ev'.handle, ev'.id) IN
        IF key \notin DOMAIN extHostChatSessions
                \/ ~sessionObjs[extHostChatSessions[key]].hasRequestHandler
        THEN /\ ev'.outcome = "return"
             /\ ev'.value = EmptyResult
             /\ ev'.modelLookups = 0
             /\ ev'.handlerCalls = 0
             /\ pendingRequests' = pendingRequests
        ELSE /\ ev'.outcome = "await"
             /\ Len(pendingRequests') = Len(pendingRequests) + 1
             /\ pendingRequests'[Len(pendingRequests')].session = extHostChatSessions[key]
    /\ (/\ C11_IsStart
        /\ ev.op = "$disposeChatSessionContent"
        /\ ev.handle = ev'.handle
        /\ ev.id = ev'.id)
            => ev'.outcome = "return" /\ pendingRequests' = pendingRequests
    /\ ev'.invoked # {} /\ ev'.op = "$invokeChatSessionRequestHandler.model" =>
        /\ ev'.invoked = {<<"requestHandler", ev'.session>>}
        /\ sessionObjs[ev'.session].hasRequestHandler
        /\ ev'.handlerCalls = 1
        /\ ev'.token = [source |-> "request"]
    /\ \A i \in 1..Len(pendingRequests') : pendingRequests'[i].handlerCalls <= 1

\* C11 as stated: ..., and every call that finds a session with a
\* requestHandler calls that handler exactly once with the received token and
\* returns {} after it.
C11_Original_Step ==
    /\ C11_Common
    /\ C11_IsEnd =>
        /\ ev'.handlerCalls = 1
        /\ ev'.token = [source |-> "request"]
        /\ ev'.outcome = "return"
        /\ ev'.value = EmptyResult
C11_Amended_Step ==
    /\ C11_Common
    /\ C11_IsEnd =>
        IF ev'.op = "$invokeChatSessionRequestHandler.model"
        THEN /\ ev'.outcome = "throw"
             /\ ev'.error = "Language model unavailable"
             /\ ev'.handlerCalls = 0
        ELSE /\ ev'.handlerCalls = 1
             /\ ev'.token = [source |-> "request"]
             /\ ev'.outcome = "return" => ev'.value = EmptyResult
             /\ ev'.outcome \in {"return", "throw"}
C12_ReturnedIds ==
    IF C6_IsReturn THEN {ev'.value[i].id : i \in 1..Len(ev'.value)} ELSE {}
C12_Step ==
    /\ \A X \in ItemIds :
        IF X \in C12_ReturnedIds
        THEN /\ X \in DOMAIN sessionMap'
             /\ sessionMap'[X] \in {ev'.sessions.items[i] : i \in 1..Len(ev'.sessions.items)}
             /\ ToDto(sessionMap'[X]) = C6_LastWith(ev'.value, X)
        ELSE /\ X \in DOMAIN sessionMap' <=> X \in DOMAIN sessionMap
             /\ X \in DOMAIN sessionMap => sessionMap'[X] = sessionMap[X]
    /\ ev'.op = "processArgument" =>
        ev'.result = IF /\ ev'.arg.mid = "ChatSessionContext"
                        /\ ev'.arg.id \in DOMAIN sessionMap
                     THEN sessionMap[ev'.arg.id]
                     ELSE ev'.arg
C12_ArgumentResolvesToLastReturnedItem == [][C12_Step]_vars

\* An argument has been resolved to an item after both registered providers
\* were unregistered, while an argument with another tag and a stored id came
\* back unchanged.
C12_Witness ==
    /\ ev.op = "processArgument"
    /\ ev.arg.mid = "ChatSessionContext"
    /\ ev.result # ev.arg
    /\ Len(registered.item) = 2
    /\ chatSessionItemProviders = EmptyMap
    /\ DOMAIN sessionMap = {"a", "b"}

\* C13: for every item-provider handle h, the main thread is sent at most one
\* $unregisterChatSessionItemProvider(h), and never more of them than
\* $registerChatSessionItemProvider(h, ...), however often dispose() is called
\* on the object registerChatSessionItemProvider returned.
C13_Registers(log) == SelectSeq(log, LAMBDA msg : msg.m = "$registerChatSessionItemProvider")
C13_AtMostOneUnregister ==
    \A h \in ItemHandles :
        /\ Len(Unregisters(ItemLog(h))) <= 1
        /\ Len(Unregisters(ItemLog(h))) <= Len(C13_Registers(ItemLog(h)))

\* C14: whenever the last call for a key h_id was $disposeChatSessionContent
\* (no $provideChatSessionContent(h, id) was started after it) and no
\* $provideChatSessionContent(h, id) is pending, _extHostChatSessions holds no
\* undisposed session under h_id; so a dispose that arrives while the provider
\* is still being awaited does not leave the session registered.
C14_Pending(key) ==
    \E i \in 1..Len(pendingContent) :
        Key(pendingContent[i].handle, pendingContent[i].id) = key
C14_NoSessionOutlivesDispose ==
    \A key \in DOMAIN lastCall :
        (lastCall[key] = "$disposeChatSessionContent" /\ ~C14_Pending(key))
            => ~(/\ key \in DOMAIN extHostChatSessions
                 /\ ~sessionObjs[extHostChatSessions[key]].storeDisposed)

\* C15: a $provideChatSessionContent call that rejects, for whichever reason
\* (no provider for the handle, the provider's promise rejecting, the
\* activeResponseCallback throwing, the history not converting), leaves
\* _extHostChatSessions with the entries it had. The call writes to the Map
\* only in the step that ends it, so the step that rejects must not change it.
C15_Rejects ==
    /\ ev'.op \in {"$provideChatSessionContent", "$provideChatSessionContent.resume"}
    /\ ev'.outcome = "throw"
C15_Step == C15_Rejects => extHostChatSessions' = extHostChatSessions
C15_RejectionLeavesNoEntry == [][C15_Step]_vars

====
